---- MODULE Spec2Model ----
(***************************************************************************)
(* Model of the tourism orchestrator (parentAgent), its two child agents   *)
(* (weatherAgent, placesAgent) and the geocoding validation of             *)
(* src/utils/api.js.                                                       *)
(*                                                                         *)
(* A JavaScript string is a sequence of one-character strings, so that     *)
(* trim, split, includes, toLowerCase and the regular expressions of the   *)
(* source are computed, not assumed.  A geocoder importance (a float in    *)
(* 0..1) is an integer number of hundredths.                               *)
(***************************************************************************)
EXTENDS Integers, Sequences, FiniteSets, TLC

(* ------------------------------------------------------------------ *)
(* JavaScript string primitives                                       *)
(* ------------------------------------------------------------------ *)

\* \s of the regular expressions and of String.prototype.trim
IsWs(c) == c \in {" ", "\t"}

\* the character class [.,!?;:] removed by replace(/[.,!?;:]/g, '')
IsPunct(c) == c \in {".", ",", "!", "?", ";", ":"}

\* the character class [,?!.] that ends a captured span
IsTerm(c) == c \in {",", "?", "!", "."}

LowerChar(c) ==
  CASE c = "A" -> "a" [] c = "B" -> "b" [] c = "C" -> "c" [] c = "D" -> "d"
    [] c = "E" -> "e" [] c = "F" -> "f" [] c = "G" -> "g" [] c = "H" -> "h"
    [] c = "I" -> "i" [] c = "J" -> "j" [] c = "K" -> "k" [] c = "L" -> "l"
    [] c = "M" -> "m" [] c = "N" -> "n" [] c = "O" -> "o" [] c = "P" -> "p"
    [] c = "Q" -> "q" [] c = "R" -> "r" [] c = "S" -> "s" [] c = "T" -> "t"
    [] c = "U" -> "u" [] c = "V" -> "v" [] c = "W" -> "w" [] c = "X" -> "x"
    [] c = "Y" -> "y" [] c = "Z" -> "z"
    [] OTHER -> c

\* String.prototype.toLowerCase
toLowerCase(s) == [i \in 1..Len(s) |-> LowerChar(s[i])]

RECURSIVE TrimLeft(_)
TrimLeft(s) == IF s # <<>> /\ IsWs(Head(s)) THEN TrimLeft(Tail(s)) ELSE s

RECURSIVE TrimRight(_)
TrimRight(s) ==
  IF s # <<>> /\ IsWs(s[Len(s)]) THEN TrimRight(SubSeq(s, 1, Len(s) - 1)) ELSE s

\* String.prototype.trim
trim(s) == TrimRight(TrimLeft(s))

\* s.startsWith-at-position: sub occurs in s at index i
OccursAt(s, sub, i) ==
  /\ i >= 1
  /\ i + Len(sub) - 1 <= Len(s)
  /\ \A k \in 1..Len(sub) : s[i + k - 1] = sub[k]

\* String.prototype.includes
includes(s, sub) == \E i \in 1..(Len(s) + 1) : OccursAt(s, sub, i)

\* Array.prototype.includes for an array of strings
arrayIncludes(arr, w) == \E i \in 1..Len(arr) : arr[i] = w

\* replace(/[.,!?;:]/g, '')
RECURSIVE stripPunct(_)
stripPunct(s) ==
  IF s = <<>> THEN <<>>
  ELSE IF IsPunct(Head(s)) THEN stripPunct(Tail(s))
  ELSE <<Head(s)>> \o stripPunct(Tail(s))

\* String.prototype.split(sep) for a one-character separator
RECURSIVE SplitAcc(_, _, _, _)
SplitAcc(s, sep, cur, acc) ==
  IF s = <<>> THEN Append(acc, cur)
  ELSE IF Head(s) = sep THEN SplitAcc(Tail(s), sep, <<>>, Append(acc, cur))
  ELSE SplitAcc(Tail(s), sep, Append(cur, Head(s)), acc)

splitChar(s, sep) == SplitAcc(s, sep, <<>>, <<>>)

\* String.prototype.split(/\s+/): a run of whitespace is one separator
RECURSIVE SplitWsAcc(_, _, _)
SplitWsAcc(s, cur, acc) ==
  IF s = <<>> THEN Append(acc, cur)
  ELSE IF IsWs(Head(s)) THEN SplitWsAcc(TrimLeft(s), <<>>, Append(acc, cur))
  ELSE SplitWsAcc(Tail(s), Append(cur, Head(s)), acc)

splitWs(s) == SplitWsAcc(s, <<>>, <<>>)

\* Array.prototype.join(sep)
RECURSIVE join(_, _)
join(arr, sep) ==
  IF arr = <<>> THEN <<>>
  ELSE IF Len(arr) = 1 THEN arr[1]
  ELSE arr[1] \o sep \o join(Tail(arr), sep)

\* Array.prototype.slice(from, to) with 0-based, end-exclusive indices
slice(arr, from, to) ==
  LET lo == IF from < 0 THEN 0 ELSE from
      hi == IF to > Len(arr) THEN Len(arr) ELSE to
  IN IF hi <= lo THEN <<>> ELSE SubSeq(arr, lo + 1, hi)

\* displayName.split(',')[0]: the characters before the first comma
RECURSIVE firstSegment(_)
firstSegment(s) ==
  IF s = <<>> \/ Head(s) = "," THEN <<>>
  ELSE <<Head(s)>> \o firstSegment(Tail(s))

(* ------------------------------------------------------------------ *)
(* src/utils/api.js: the location matcher and the geocoding call      *)
(* ------------------------------------------------------------------ *)

Min3(a, b, c) == IF a <= b /\ a <= c THEN a ELSE IF b <= c THEN b ELSE c

\* One row of the Levenshtein matrix: row[j + 1] is matrix[i][j], computed
\* from the previous row and the cell to the left.
RECURSIVE LevRow(_, _, _, _)
LevRow(prev, c, str1, acc) ==
  IF Len(acc) = Len(str1) + 1 THEN acc
  ELSE LET j == Len(acc)
           cell == IF c = str1[j] THEN prev[j]
                   ELSE 1 + Min3(prev[j], acc[j], prev[j + 1])
       IN LevRow(prev, c, str1, Append(acc, cell))

RECURSIVE LevRows(_, _, _, _)
LevRows(str1, str2, i, prev) ==
  IF i > Len(str2) THEN prev
  ELSE LevRows(str1, str2, i + 1, LevRow(prev, str2[i], str1, <<i>>))

levenshteinDistance(str1, str2) ==
  LevRows(str1, str2, 1, [j \in 1..(Len(str1) + 1) |-> j - 1])[Len(str1) + 1]

\* calculateSimilarity returns (longer.length - distance) / longer.length;
\* the model keeps the fraction as numerator and denominator.
calculateSimilarity(str1, str2) ==
  LET longer  == IF Len(str1) > Len(str2) THEN str1 ELSE str2
      shorter == IF Len(str1) > Len(str2) THEN str2 ELSE str1
  IN IF Len(longer) = 0 THEN [num |-> 1, den |-> 1]
     ELSE [num |-> Len(longer) - levenshteinDistance(longer, shorter),
           den |-> Len(longer)]

\* similarity >= pct / 100
SimAtLeast(sim, pct) == 100 * sim.num >= pct * sim.den

\* isValidLocationMatch with a 0.7 similarity bar for short inputs
isValidLocationMatch_Bar07(inputLocation, geocodingResult) ==
  IF geocodingResult.displayName = <<>> THEN FALSE
  ELSE
    LET inputLower == trim(toLowerCase(inputLocation))
        displayNameLower == toLowerCase(geocodingResult.displayName)
        mainLocation == trim(firstSegment(displayNameLower))
        containsMatch == includes(mainLocation, inputLower)
                           \/ includes(inputLower, mainLocation)
        similarity == calculateSimilarity(inputLower, mainLocation)
    IN IF Len(inputLower) < 4 /\ ~SimAtLeast(similarity, 70) THEN FALSE
       ELSE IF Len(inputLower) < 4 /\ ~containsMatch THEN FALSE
       ELSE IF Len(inputLower) >= 4
              THEN containsMatch \/ SimAtLeast(similarity, 65)
       ELSE TRUE

isValidLocationMatch(inputLocation, geocodingResult) ==
  IF geocodingResult.displayName = <<>> THEN FALSE
  ELSE
    LET inputLower == trim(toLowerCase(inputLocation))
        displayNameLower == toLowerCase(geocodingResult.displayName)
        mainLocation == trim(firstSegment(displayNameLower))
        containsMatch == includes(mainLocation, inputLower)
                           \/ includes(inputLower, mainLocation)
        similarity == calculateSimilarity(inputLower, mainLocation)
    IN IF Len(inputLower) < 4 /\ ~SimAtLeast(similarity, 80) THEN FALSE
       ELSE IF Len(inputLower) < 4 /\ ~containsMatch THEN FALSE
       ELSE IF Len(inputLower) >= 4
              THEN containsMatch \/ SimAtLeast(similarity, 65)
       ELSE TRUE

\* What the Nominatim request can produce: a transport or HTTP failure, an
\* empty result list, or a first result.  importance = -1 stands for a result
\* without an importance field.
GeoFail == [kind |-> "fail"]
GeoEmpty == [kind |-> "empty"]

\* What geocodeLocation gives its caller.
GeoThrown == [kind |-> "throw"]
GeoNull == [kind |-> "null"]

\* geocodeLocation with the 0.2 importance threshold for every length
geocodeLocation_OneThreshold(location, reply) ==
  IF reply.kind = "fail" THEN GeoThrown
  ELSE IF reply.kind = "empty" THEN GeoNull
  ELSE
    LET result == [lat |-> reply.lat, lon |-> reply.lon,
                   displayName |-> reply.display_name,
                   importance |-> IF reply.importance = -1 THEN 0
                                  ELSE reply.importance]
    IN IF ~isValidLocationMatch(location, result) THEN GeoNull
       ELSE IF result.importance < 20 THEN GeoNull
       ELSE [kind |-> "ok", lat |-> result.lat, lon |-> result.lon,
             displayName |-> result.displayName]

geocodeLocation(location, reply) ==
  IF reply.kind = "fail" THEN GeoThrown
  ELSE IF reply.kind = "empty" THEN GeoNull
  ELSE
    LET result == [lat |-> reply.lat, lon |-> reply.lon,
                   displayName |-> reply.display_name,
                   importance |-> IF reply.importance = -1 THEN 0
                                  ELSE reply.importance]
    IN IF ~isValidLocationMatch(location, result) THEN GeoNull
       ELSE IF Len(location) < 4 /\ result.importance < 40 THEN GeoNull
       ELSE IF Len(location) >= 4 /\ result.importance < 20 THEN GeoNull
       ELSE [kind |-> "ok", lat |-> result.lat, lon |-> result.lon,
             displayName |-> result.displayName]

(* ------------------------------------------------------------------ *)
(* parentAgent.js: analyzeIntent                                      *)
(* ------------------------------------------------------------------ *)

weatherKeywords ==
  << <<"w","e","a","t","h","e","r">>,
     <<"t","e","m","p","e","r","a","t","u","r","e">>, <<"t","e","m","p">>,
     <<"r","a","i","n">>, <<"r","a","i","n","i","n","g">>,
     <<"p","r","e","c","i","p","i","t","a","t","i","o","n">>,
     <<"s","u","n","n","y">>, <<"c","l","o","u","d","y">>,
     <<"c","o","l","d">>, <<"h","o","t">>, <<"w","a","r","m">>,
     <<"c","o","o","l">>, <<"f","o","r","e","c","a","s","t">>,
     <<"c","l","i","m","a","t","e">> >>

placesKeywords ==
  << <<"p","l","a","c","e">>, <<"p","l","a","c","e","s">>,
     <<"v","i","s","i","t">>, <<"v","i","s","i","t","i","n","g">>,
     <<"a","t","t","r","a","c","t","i","o","n">>,
     <<"a","t","t","r","a","c","t","i","o","n","s">>,
     <<"t","o","u","r","i","s","t">>, <<"t","o","u","r","i","s","m">>,
     <<"s","i","g","h","t","s","e","e","i","n","g">>,
     <<"s","i","g","h","t","s">>, <<"s","e","e">>,
     <<"e","x","p","l","o","r","e">>, <<"p","l","a","n">>,
     <<"p","l","a","n","n","i","n","g">>, <<"t","r","i","p">>,
     <<"t","r","a","v","e","l">>,
     <<"d","e","s","t","i","n","a","t","i","o","n">>,
     <<"l","a","n","d","m","a","r","k">>,
     <<"m","o","n","u","m","e","n","t">>, <<"m","u","s","e","u","m">>,
     <<"p","a","r","k">>, <<"b","e","a","c","h">>,
     <<"t","e","m","p","l","e">>, <<"c","h","u","r","c","h">>,
     <<"p","a","l","a","c","e">> >>

\* keywords.some(keyword => lowerInput.includes(keyword))
someIncluded(keywords, lowerInput) ==
  \E k \in 1..Len(keywords) : includes(lowerInput, keywords[k])

\* analyzeIntent with places asked for only when weather is not
analyzeIntent_WeatherFirst(userInput) ==
  LET lowerInput == toLowerCase(userInput)
  IN [needsWeather |-> someIncluded(weatherKeywords, lowerInput),
      needsPlaces |-> /\ someIncluded(placesKeywords, lowerInput)
                      /\ ~someIncluded(weatherKeywords, lowerInput)]

analyzeIntent(userInput) ==
  LET lowerInput == toLowerCase(userInput)
  IN [needsWeather |-> someIncluded(weatherKeywords, lowerInput),
      needsPlaces |-> someIncluded(placesKeywords, lowerInput)]

(* ------------------------------------------------------------------ *)
(* parentAgent.js: extractLocation                                    *)
(* ------------------------------------------------------------------ *)

stopWords ==
  << <<"t","h","e">>, <<"a">>, <<"a","n">>, <<"a","n","d">>, <<"o","r">>,
     <<"w","h","a","t">>, <<"w","h","e","r","e">>, <<"w","h","e","n">>,
     <<"h","o","w">>, <<"i","s">>, <<"a","r","e">>, <<"w","a","s">>,
     <<"w","e","r","e">>, <<"t","h","e","r","e">>, <<"h","e","r","e">>,
     <<"t","h","i","s">>, <<"t","h","a","t">>, <<"g","o">>,
     <<"g","o","i","n","g">>, <<"t","o">>, <<"i","n">>, <<"a","t">>,
     <<"n","e","a","r">>, <<"a","r","o","u","n","d">>,
     <<"v","i","s","i","t">>, <<"v","i","s","i","t","i","n","g">>,
     <<"t","e","l","l">>, <<"m","e">>, <<"a","b","o","u","t">>, <<"i">>,
     <<"a","m">>, <<"i","'","m">>, <<"i","m">> >>

locationIndicators ==
  << <<"t","o">>, <<"i","n">>, <<"a","t">>, <<"n","e","a","r">>,
     <<"a","r","o","u","n","d">>, <<"v","i","s","i","t">>,
     <<"v","i","s","i","t","i","n","g">> >>

NoMatch == [matched |-> FALSE, cap |-> <<>>]

\* first index >= p that does not hold whitespace (Len(s) + 1 if none)
RECURSIVE SkipWs(_, _)
SkipWs(s, p) == IF p <= Len(s) /\ IsWs(s[p]) THEN SkipWs(s, p + 1) ELSE p

\* last index of the run of non-terminator characters that starts at q
RECURSIVE SpanEnd(_, _)
SpanEnd(s, q) ==
  IF q + 1 <= Len(s) /\ ~IsTerm(s[q + 1]) THEN SpanEnd(s, q + 1) ELSE q

\* The literal part of a pattern, word \s+ word \s+ ... word, matched
\* case-insensitively at index i of s (ls is s lower-cased).  The result is
\* the index after the last word, 0 if there is no match.
RECURSIVE MatchWords(_, _, _)
MatchWords(ls, i, ws) ==
  IF ~OccursAt(ls, ws[1], i) THEN 0
  ELSE LET p == i + Len(ws[1])
       IN IF Len(ws) = 1 THEN p
          ELSE IF p > Len(ls) \/ ~IsWs(ls[p]) THEN 0
          ELSE MatchWords(ls, SkipWs(ls, p), Tail(ws))

\* The tail of every pattern, \s+([^,?!.]+?)(?:[,?!.]|$), matched at index p.
\* \s+ is greedy and the group is lazy: the group is the run of
\* non-terminators after the whitespace; when the whitespace is followed by a
\* terminator or the end of the input, \s+ gives back its last character and
\* the group is that one whitespace character.
CaptureAfter(s, p) ==
  IF p > Len(s) \/ ~IsWs(s[p]) THEN NoMatch
  ELSE LET q == SkipWs(s, p)
       IN IF q <= Len(s) /\ ~IsTerm(s[q])
            THEN [matched |-> TRUE, cap |-> SubSeq(s, q, SpanEnd(s, q))]
          ELSE IF q - p >= 2 THEN [matched |-> TRUE, cap |-> <<s[q - 1]>>]
          ELSE NoMatch

TryAt(s, ls, i, ws) ==
  LET p == MatchWords(ls, i, ws)
  IN IF p = 0 THEN NoMatch ELSE CaptureAfter(s, p)

\* the alternatives of a group such as (?:in|at), tried in order
RECURSIVE TryAlts(_, _, _, _)
TryAlts(s, ls, i, alts) ==
  IF alts = <<>> THEN NoMatch
  ELSE LET r == TryAt(s, ls, i, Head(alts))
       IN IF r.matched THEN r ELSE TryAlts(s, ls, i, Tail(alts))

\* One start position of the regular expression.  With boundary = TRUE the
\* pattern begins with (?:^|\s).
TryPos(s, ls, i, alts, boundary) ==
  IF ~boundary THEN TryAlts(s, ls, i, alts)
  ELSE LET atStart == IF i = 1 THEN TryAlts(s, ls, 1, alts) ELSE NoMatch
       IN IF atStart.matched THEN atStart
          ELSE IF i <= Len(s) /\ IsWs(s[i]) THEN TryAlts(s, ls, i + 1, alts)
          ELSE NoMatch

\* String.prototype.match without the g flag: the leftmost match
RECURSIVE Scan(_, _, _, _, _)
Scan(s, ls, i, alts, boundary) ==
  IF i > Len(s) THEN NoMatch
  ELSE LET r == TryPos(s, ls, i, alts, boundary)
       IN IF r.matched THEN r ELSE Scan(s, ls, i + 1, alts, boundary)

regexMatch(s, alts, boundary) == Scan(s, toLowerCase(s), 1, alts, boundary)

goingToGoToPattern == << << <<"g","o","i","n","g">>, <<"t","o">>, <<"g","o">>, <<"t","o">> >> >>
goingToPattern == << << <<"g","o","i","n","g">>, <<"t","o">> >> >>
inAtPattern == << << <<"i","n">> >>, << <<"a","t">> >> >>
toPattern == << << <<"t","o">> >> >>

\* .filter(w => { const clean = w.toLowerCase().replace(/[.,!?;:]/g, '');
\*                return !stopWords.includes(clean) && clean.length > 0; })
keepWord(w) ==
  LET clean == stripPunct(toLowerCase(w))
  IN ~arrayIncludes(stopWords, clean) /\ Len(clean) > 0

\* raw.split(/\s+/).filter(...).join(' ').trim()
removeStopWords(raw) == trim(join(SelectSeq(splitWs(raw), keepWord), <<" ">>))

\* .map(w => w.replace(/[.,!?;:]/g, '')).filter(...) of patterns 4 and 5
mapStrip(ws) == [k \in 1..Len(ws) |-> stripPunct(ws[k])]
keepStripped(w) == ~arrayIncludes(stopWords, toLowerCase(w)) /\ Len(w) > 0

\* goingToRule without the stop-word filter
goingToRule_NoFilter(cap) ==
  LET potentialLocation == trim(stripPunct(trim(cap)))
  IN [ret |-> Len(potentialLocation) >= 2, value |-> potentialLocation]

\* Patterns 1a and 1b: the body of the if, given the captured group.  ret
\* tells whether the function returns there.
goingToRule(cap) ==
  LET rawLocation == trim(cap)
      filtered == removeStopWords(rawLocation)
      potentialLocation == IF Len(filtered) < 2
                             THEN trim(stripPunct(rawLocation))
                           ELSE filtered
  IN [ret |-> Len(potentialLocation) >= 2, value |-> potentialLocation]

\* Patterns 2 and 3: the body of the if, given the captured group.
inAtToRule(cap) ==
  LET potentialLocation == removeStopWords(trim(cap))
  IN [ret |-> potentialLocation # <<>>, value |-> potentialLocation]

\* Pattern 4: the for loop over words from 0-based index i, with the value
\* potentialLocation has on entry.
RECURSIVE indicatorLoop(_, _, _)
indicatorLoop(words, i, potentialLocation) ==
  IF i >= Len(words) THEN potentialLocation
  ELSE
    LET word == stripPunct(toLowerCase(words[i + 1]))
        hit == \/ (arrayIncludes(locationIndicators, word) /\ word # <<"t","o">>)
               \/ (word = <<"t","o">> /\ i > 0
                     /\ toLowerCase(words[i]) # <<"g","o","i","n","g">>)
    IN IF hit /\ i + 1 < Len(words)
         THEN LET locationWords ==
                    SelectSeq(mapStrip(slice(words, i + 1, i + 6)), keepStripped)
                  pl == trim(join(locationWords, <<" ">>))
              IN IF pl # <<>> THEN pl ELSE indicatorLoop(words, i + 1, pl)
       ELSE indicatorLoop(words, i + 1, potentialLocation)

extractLocation(userInput) ==
  LET words == splitWs(userInput)
      m1a == regexMatch(userInput, goingToGoToPattern, FALSE)
      r1a == IF m1a.matched THEN goingToRule(m1a.cap)
             ELSE [ret |-> FALSE, value |-> <<>>]
      m1b == regexMatch(userInput, goingToPattern, FALSE)
      r1b == IF m1b.matched THEN goingToRule(m1b.cap)
             ELSE [ret |-> FALSE, value |-> r1a.value]
      m2 == regexMatch(userInput, inAtPattern, FALSE)
      r2 == IF m2.matched THEN inAtToRule(m2.cap)
            ELSE [ret |-> FALSE, value |-> r1b.value]
      m3 == regexMatch(userInput, toPattern, TRUE)
      r3 == IF m3.matched
                 /\ ~includes(toLowerCase(userInput),
                              <<"g","o","i","n","g"," ","t","o">>)
              THEN inAtToRule(m3.cap)
            ELSE [ret |-> FALSE, value |-> r2.value]
      p4 == indicatorLoop(words, 0, r3.value)
      p5 == IF p4 = <<>>
              THEN trim(join(SelectSeq(mapStrip(slice(words, Len(words) - 5,
                                                      Len(words))),
                                       keepStripped), <<" ">>))
            ELSE p4
      p6 == IF Len(p5) < 2 THEN stripPunct(trim(userInput)) ELSE p5
  IN IF r1a.ret THEN r1a.value
     ELSE IF r1b.ret THEN r1b.value
     ELSE IF r2.ret THEN r2.value
     ELSE IF r3.ret THEN r3.value
     ELSE p6

(* ------------------------------------------------------------------ *)
(* parentAgent.js (second variant), weatherAgent.js, placesAgent.js   *)
(* ------------------------------------------------------------------ *)

\* JavaScript null and undefined
JsNull == [null |-> TRUE]
JsUndefined == [undefined |-> TRUE]

\* keySupplied without the trim() test
keySupplied_NoTrim(claudeApiKey) ==
  /\ claudeApiKey # JsNull
  /\ claudeApiKey.str # <<>>

\* if (claudeApiKey && claudeApiKey.trim())
keySupplied(claudeApiKey) ==
  /\ claudeApiKey # JsNull
  /\ claudeApiKey.str # <<>>
  /\ trim(claudeApiKey.str) # <<>>

\* candidateTooShort with only the emptiness test
candidateTooShort_EmptyOnly(potentialLocation) == Len(potentialLocation) < 1

\* if (!potentialLocation || potentialLocation.length < 2)
candidateTooShort(potentialLocation) == Len(potentialLocation) < 2

\* locationVariations with the shortest variation first
locationVariations_ShortestFirst(potentialLocation) ==
  << join(slice(splitChar(potentialLocation, " "), 0, 3), <<" ">>),
     firstSegment(potentialLocation),
     potentialLocation >>

\* const locationVariations = [ ... ]
locationVariations(potentialLocation) ==
  << potentialLocation,
     firstSegment(potentialLocation),
     join(slice(splitChar(potentialLocation, " "), 0, 3), <<" ">>) >>

\* if (!location || location.length < 2) continue;
\* the 1-based index of the first variation at or after i that is geocoded
RECURSIVE nextVariation(_, _)
nextVariation(variations, i) ==
  IF i > Len(variations) THEN i
  ELSE IF Len(variations[i]) < 2 THEN nextVariation(variations, i + 1)
  ELSE i

\* afterFailedVariation with a catch that leaves the loop
afterFailedVariation_BreakOnThrow(variations, i, kind) ==
  IF kind = "throw" THEN Len(variations) + 1
  ELSE nextVariation(variations, i + 1)

\* The loop after a variation that was not accepted: geocodeLocation returned
\* null (kind "null", no break) or threw (kind "throw", catch and continue).
\* The result is the index of the variation geocoded next.
afterFailedVariation(variations, i, kind) == nextVariation(variations, i + 1)

\* number of characters of shorter that occur somewhere in longer
RECURSIVE countMatches(_, _)
countMatches(shorter, longer) ==
  IF shorter = <<>> THEN 0
  ELSE (IF includes(longer, <<Head(shorter)>>) THEN 1 ELSE 0)
         + countMatches(Tail(shorter), longer)

\* calculateLocationSimilarity, as a fraction
calculateLocationSimilarity(str1, str2) ==
  LET longer  == IF Len(str1) > Len(str2) THEN str1 ELSE str2
      shorter == IF Len(str1) > Len(str2) THEN str2 ELSE str1
  IN IF Len(longer) = 0 THEN [num |-> 10, den |-> 10]
     ELSE IF includes(longer, shorter) THEN [num |-> 9, den |-> 10]
     ELSE [num |-> countMatches(shorter, longer), den |-> Len(longer)]

\* revalidationRejects with a bar above the 0.9 given for containment
revalidationRejects_Above09(potentialLocation, geoData) ==
  LET returnedLocation == toLowerCase(firstSegment(geoData.displayName))
      inputLocation == trim(toLowerCase(potentialLocation))
      similarity == calculateLocationSimilarity(inputLocation, returnedLocation)
  IN Len(inputLocation) < 3 /\ ~SimAtLeast(similarity, 95)

\* "Additional validation": TRUE when the hit geocodeLocation accepted is
\* rejected after the loop
revalidationRejects(potentialLocation, geoData) ==
  LET returnedLocation == toLowerCase(firstSegment(geoData.displayName))
      inputLocation == trim(toLowerCase(potentialLocation))
      similarity == calculateLocationSimilarity(inputLocation, returnedLocation)
  IN Len(inputLocation) < 3 /\ ~SimAtLeast(similarity, 70)

\* the two failure results of the heuristic path
noLocationFailure ==
  [success |-> FALSE,
   error |-> [template |-> "I couldn't find a location in your query. Please include a city or place name.",
              arg |-> <<>>],
   location |-> <<>>]

notRecognizedFailure_NoEcho(potentialLocation) ==
  [success |-> FALSE,
   error |-> [template |-> "I'm sorry, but I don't recognize \"${potentialLocation}\" as a valid location. ...",
              arg |-> potentialLocation],
   location |-> <<>>]

notRecognizedFailure(potentialLocation) ==
  [success |-> FALSE,
   error |-> [template |-> "I'm sorry, but I don't recognize \"${potentialLocation}\" as a valid location. ...",
              arg |-> potentialLocation],
   location |-> potentialLocation]

\* the intent flags used when analysis is still undefined after resolution
heuristicAnalysis(userInput, validatedLocation) ==
  LET intent == analyzeIntent(userInput)
  IN [needsWeather |-> intent.needsWeather,
      needsPlaces |-> intent.needsPlaces,
      location |-> validatedLocation]

\* The for-of loop over locationVariations from position i on; replies[k] is
\* what the search answers for the k-th variation.  tried lists the
\* variations geocoded, in order.
RECURSIVE cascade(_, _, _, _)
cascade(variations, i, replies, tried) ==
  IF i > Len(variations) THEN [geoData |-> GeoNull, tried |-> tried]
  ELSE LET geoData == geocodeLocation(variations[i], replies[i])
       IN IF geoData.kind = "ok"
            THEN [geoData |-> geoData, tried |-> Append(tried, variations[i])]
          ELSE cascade(variations,
                       afterFailedVariation(variations, i, geoData.kind),
                       replies, Append(tried, variations[i]))

\* Step 2 of parentAgent after extractLocation has given potentialLocation:
\* the first variant (revalidate = FALSE) has no
\* "Additional validation" after the loop, the second (revalidate = TRUE)
\* has.  The error texts of the two variants are left out.
resolveLocation(potentialLocation, replies, revalidate) ==
  LET variations == locationVariations(potentialLocation)
      found == cascade(variations, nextVariation(variations, 1), replies, <<>>)
  IN IF candidateTooShort(potentialLocation)
       THEN [success |-> FALSE, location |-> <<>>, tried |-> <<>>]
     ELSE IF found.geoData.kind # "ok"
       THEN [success |-> FALSE, location |-> potentialLocation,
             tried |-> found.tried]
     ELSE IF revalidate /\ revalidationRejects(potentialLocation, found.geoData)
       THEN [success |-> FALSE, location |-> potentialLocation,
             tried |-> found.tried]
     ELSE [success |-> TRUE,
           location |-> firstSegment(found.geoData.displayName),
           tried |-> found.tried]

\* Step 2 runs although Step 1 validated a location
needsHeuristic_Always(validatedLocation) == TRUE

\* Step 2 is entered: if (!validatedLocation)
needsHeuristic(validatedLocation) == validatedLocation = <<>>

\* Step 4: which child agents are called
weatherWanted(analysis) == analysis.needsWeather

\* placesWanted without the default to places
placesWanted_NoDefault(analysis) == analysis.needsPlaces

placesWanted(analysis) ==
  \/ analysis.needsPlaces
  \/ (~analysis.needsWeather /\ ~analysis.needsPlaces)

\* Step 5: the parts pushed, in order; response is parts.join('\n\n')
formatResponse(results, validatedLocation) ==
  (IF results.weather # JsNull /\ results.weather.success
     THEN <<results.weather.message>> ELSE <<>>)
  \o
  (IF results.places # JsNull /\ results.places.success
     THEN IF Len(results.places.places) > 0
            THEN <<[tpl |-> "Here are some tourist attractions in ${validatedLocation}:",
                    location |-> validatedLocation, list |-> <<>>]>>
          ELSE <<results.places.message>>
   ELSE <<>>)

successResult(results, validatedLocation) ==
  [success |-> TRUE,
   message |-> formatResponse(results, validatedLocation),
   results |-> results]

\* weatherAgent: the three returns
agentLocationNotFound == [success |-> FALSE, error |-> "Location not found"]

agentCaught(message) == [success |-> FALSE, error |-> message]

weatherSuccess(geoData, weatherData) ==
  LET cityName == firstSegment(geoData.displayName)
  IN [success |-> TRUE,
      message |-> [tpl |-> "In ${cityName} it's currently ${temperature}C with a chance of ${precipitationProbability}% to rain",
                   location |-> cityName,
                   list |-> <<weatherData.temperature,
                              weatherData.precipitationProbability>>],
      data |-> [city |-> cityName,
                temperature |-> weatherData.temperature,
                precipitationProbability |-> weatherData.precipitationProbability]]

\* placesAgent: the two successful returns
placesSuccess(location, places) ==
  IF Len(places) = 0
    THEN [success |-> TRUE,
          message |-> [tpl |-> "No tourist attractions found near ${location}",
                       location |-> location, list |-> <<>>],
          places |-> <<>>]
  ELSE [success |-> TRUE,
        message |-> [tpl |-> "Here are some tourist attractions in ${location}: ${placesList}",
                     location |-> location,
                     list |-> [k \in 1..Len(places) |-> places[k].name]],
        places |-> places]

(* ------------------------------------------------------------------ *)
(* Inputs of one parentAgent call and answers of the collaborators    *)
(* ------------------------------------------------------------------ *)

QueryParisTexas ==
  <<"T","e","l","l"," ","m","e"," ","a","b","o","u","t"," ","P","a","r","i","s"," ","T","e","x","a","s">>
QueryOneLetter ==
  <<"a">>
QuerySaltLake ==
  <<"S","a","l","t"," ","L","a","k","e"," ","C","i","t","y"," ","U","t","a","h"," ","n","o","w">>
QueryLA ==
  <<"L","A">>
QueryBoth ==
  <<"w","e","a","t","h","e","r"," ","a","n","d"," ","p","l","a","c","e","s"," ","i","n"," ","G","o","a">>
QueryWeather ==
  <<"t","e","m","p","e","r","a","t","u","r","e"," ","i","n"," ","G","o","a">>

\* the usage examples of the README
ReadmePlaces ==
  <<"I","'","m"," ","g","o","i","n","g"," ","t","o"," ","g","o"," ","t","o"," ","B","a","n","g","a","l","o","r","e",","," ","l","e","t","'","s"," ","p","l","a","n"," ","m","y"," ","t","r","i","p",".">>
ReadmeWeather ==
  <<"I","'","m"," ","g","o","i","n","g"," ","t","o"," ","g","o"," ","t","o"," ","B","a","n","g","a","l","o","r","e",","," ","w","h","a","t"," ","i","s"," ","t","h","e"," ","t","e","m","p","e","r","a","t","u","r","e"," ","t","h","e","r","e","?">>
ReadmeBoth ==
  <<"I","'","m"," ","g","o","i","n","g"," ","t","o"," ","g","o"," ","t","o"," ","B","a","n","g","a","l","o","r","e",","," ","w","h","a","t"," ","i","s"," ","t","h","e"," ","t","e","m","p","e","r","a","t","u","r","e"," ","t","h","e","r","e","?"," ","A","n","d"," ","w","h","a","t"," ","a","r","e"," ","t","h","e"," ","p","l","a","c","e","s"," ","I"," ","c","a","n"," ","v","i","s","i","t","?">>

Queries ==
  {QueryParisTexas, QueryOneLetter, QuerySaltLake, QueryLA, QueryBoth,
   QueryWeather, ReadmePlaces, ReadmeWeather, ReadmeBoth}

\* claudeApiKey: null, '', ' ' and a key
Keys == {JsNull, [str |-> <<>>], [str |-> <<" ">>], [str |-> <<"k">>]}

\* what analyzeWithClaude can parse out of the model's answer; location <<>>
\* stands for an absent or empty location
LlmLocations == {<<>>, <<"P","a","r","i","s">>}

Analyses ==
  [needsWeather : BOOLEAN, needsPlaces : BOOLEAN, location : LlmLocations]

\* first results of the Nominatim search
Hit(lat, lon, name, importance) ==
  [kind |-> "hit", lat |-> lat, lon |-> lon, display_name |-> name,
   importance |-> importance]

HitParisFrance == Hit(48, 2, <<"P","a","r","i","s",","," ","F","r","a","n","c","e">>, 80)
HitParisTexas == Hit(33, 95, <<"P","a","r","i","s",","," ","T","e","x","a","s">>, 50)
HitSaltLake == Hit(40, 111, <<"S","a","l","t"," ","L","a","k","e"," ","C","i","t","y",","," ","U","t","a","h">>, 60)
HitLA == Hit(5, 0, <<"L","a",","," ","A","c","c","r","a">>, 45)
HitGoa == Hit(15, 74, <<"G","o","a",","," ","I","n","d","i","a">>, 70)
HitBangalore == Hit(12, 77, <<"B","e","n","g","a","l","u","r","u",","," ","K","a","r","n","a","t","a","k","a">>, 75)
GeoReplies ==
  {GeoFail, GeoEmpty, HitParisFrance, HitParisTexas, HitSaltLake, HitLA,
   HitGoa, HitBangalore}

\* longest list fetchTouristPlaces returns in the model (the code caps at 5)
MaxPlaces == 1

PlacesCatalogue ==
  << [name |-> "Louvre", type |-> "museum"],
     [name |-> "Fort", type |-> "castle"],
     [name |-> "Garden", type |-> "park"],
     [name |-> "Tower", type |-> "attraction"],
     [name |-> "Temple", type |-> "attraction"],
     [name |-> "Beach", type |-> "attraction"] >>

\* fetchTouristPlaces: throws, or returns at most 5 named places
PlacesAnswers ==
  {[kind |-> "throw", places |-> <<>>]} \cup
  {[kind |-> "ok", places |-> slice(SubSeq(PlacesCatalogue, 1, n), 0, 5)] :
     n \in 0..(IF MaxPlaces > Len(PlacesCatalogue) THEN Len(PlacesCatalogue)
               ELSE MaxPlaces)}

\* fetchWeather: throws, or returns rounded temperature and precipitation
WeatherAnswers ==
  {[kind |-> "throw", temperature |-> 0, precipitationProbability |-> 0]} \cup
  {[kind |-> "ok", temperature |-> t, precipitationProbability |-> 10] :
     t \in {21, 30}}

(* ------------------------------------------------------------------ *)
(* State                                                              *)
(* ------------------------------------------------------------------ *)

VARIABLES
  userInput,          \* parentAgent's first argument
  claudeApiKey,       \* parentAgent's second argument
  pc,                 \* the await parentAgent (or a child agent) is at
  analysis,           \* let analysis
  validatedLocation,  \* let validatedLocation
  potentialLocation,  \* const potentialLocation
  idx,                \* 1-based position of the for-of loop
  childGeo,           \* const geoData of the running child agent
  results,            \* const results
  ret,                \* the value parentAgent resolves to
  accepted,           \* history: the geoData parentAgent resolved to
  llmFailed,          \* history: the LLM try block ended in its catch
  calls,              \* history: the collaborator calls, in order
  invoked,            \* history: how often each child agent was called
  llmAnswer,          \* history: what analyzeWithClaude returned
  extraction,         \* what extractLocation(userInput) returns; extractLocation
                      \* reads nothing but its argument
  fnInput,            \* the arguments of a function applied on its own
  fnOutput            \* what that function returned

vars ==
  << userInput, claudeApiKey, pc, analysis, validatedLocation,
     potentialLocation, idx, childGeo, results, ret, accepted, llmFailed,
     calls, invoked, llmAnswer, extraction, fnInput, fnOutput >>

\* no function is being applied on its own
fnIdle == fnInput = JsNull /\ fnOutput = JsNull

Call(fn, by, arg, lat, lon, out) ==
  [fn |-> fn, by |-> by, arg |-> arg, lat |-> lat, lon |-> lon, out |-> out]

Init ==
  /\ userInput \in Queries
  /\ claudeApiKey \in Keys
  /\ pc = "start"
  /\ analysis = JsUndefined
  /\ validatedLocation = <<>>
  /\ potentialLocation = <<>>
  /\ idx = 0
  /\ childGeo = JsNull
  /\ results = JsUndefined
  /\ ret = JsUndefined
  /\ accepted = JsNull
  /\ llmFailed = FALSE
  /\ calls = <<>>
  /\ invoked = [weather |-> 0, places |-> 0]
  /\ llmAnswer = JsNull
  /\ extraction = extractLocation(userInput)
  /\ fnIdle

(* ------------------------------------------------------------------ *)
(* parentAgent, one action per await                                  *)
(* ------------------------------------------------------------------ *)

\* Steps 3 and 4 up to the first child agent call, with the analysis and the
\* validated location parentAgent has at that point.
Dispatch(a, loc) ==
  /\ analysis' = [a EXCEPT !.location = loc]
  /\ validatedLocation' = loc
  /\ results' = [weather |-> JsNull, places |-> JsNull, location |-> loc]
  /\ pc' = IF weatherWanted(a) THEN "weatherAgent"
           ELSE IF placesWanted(a) THEN "placesAgent"
           ELSE "done"
  /\ ret' = IF pc' = "done" THEN successResult(results', loc) ELSE ret

\* Step 1 is skipped: no usable key
SkipClaude ==
  /\ pc = "start"
  /\ ~keySupplied(claudeApiKey)
  /\ pc' = "heuristic"
  /\ UNCHANGED << userInput, claudeApiKey, analysis, validatedLocation,
                  potentialLocation, idx, childGeo, results, ret, accepted,
                  llmFailed, calls, invoked >>
  /\ UNCHANGED << llmAnswer, extraction, fnInput, fnOutput >>

\* await analyzeWithClaude(...) throws: the catch of Step 1
ClaudeThrows ==
  /\ pc = "start"
  /\ keySupplied(claudeApiKey)
  /\ calls' = Append(calls, Call("analyzeWithClaude", "parent", userInput,
                                 0, 0, "throw"))
  /\ llmFailed' = TRUE
  /\ pc' = "heuristic"
  /\ UNCHANGED << userInput, claudeApiKey, analysis, validatedLocation,
                  potentialLocation, idx, childGeo, results, ret, accepted,
                  invoked >>
  /\ UNCHANGED << llmAnswer, extraction, fnInput, fnOutput >>

\* await analyzeWithClaude(...) returns an analysis
ClaudeReturns ==
  /\ pc = "start"
  /\ keySupplied(claudeApiKey)
  /\ \E a \in Analyses :
       /\ analysis' = a
       /\ llmAnswer' = a
       /\ pc' = IF a.location # <<>> THEN "claudeGeocode" ELSE "heuristic"
  /\ calls' = Append(calls, Call("analyzeWithClaude", "parent", userInput,
                                 0, 0, "ok"))
  /\ UNCHANGED << userInput, claudeApiKey, validatedLocation,
                  potentialLocation, idx, childGeo, results, ret, accepted,
                  llmFailed, invoked >>
  /\ UNCHANGED << extraction, fnInput, fnOutput >>

\* await geocodeLocation(analysis.location) inside the try of Step 1
ClaudeGeocode ==
  /\ pc = "claudeGeocode"
  /\ \E reply \in GeoReplies :
       LET geoData == geocodeLocation(analysis.location, reply)
           loc == IF geoData.kind = "ok" THEN firstSegment(geoData.displayName)
                  ELSE <<>>
       IN /\ calls' = Append(calls, Call("geocodeLocation", "claude",
                                         analysis.location, 0, 0, geoData.kind))
          /\ llmFailed' = (geoData.kind = "throw")
          /\ IF ~needsHeuristic(loc)
               THEN /\ accepted' = geoData
                    /\ Dispatch(analysis, loc)
             ELSE /\ pc' = "heuristic"
                  /\ validatedLocation' = loc
                  /\ UNCHANGED << analysis, results, ret, accepted >>
  /\ UNCHANGED << userInput, claudeApiKey, potentialLocation, idx, childGeo,
                  invoked >>
  /\ UNCHANGED << llmAnswer, extraction, fnInput, fnOutput >>

\* Step 2 up to the first geocoding call of the loop
ExtractLocation ==
  /\ pc = "heuristic"
  /\ LET candidate == extraction
         first == nextVariation(locationVariations(candidate), 1)
     IN /\ potentialLocation' = candidate
        /\ IF candidateTooShort(candidate)
             THEN /\ ret' = noLocationFailure
                  /\ pc' = "done"
                  /\ idx' = idx
           ELSE /\ idx' = first
                /\ IF first > 3
                     THEN /\ ret' = notRecognizedFailure(candidate)
                          /\ pc' = "done"
                   ELSE /\ ret' = ret
                        /\ pc' = "cascade"
  /\ UNCHANGED << userInput, claudeApiKey, analysis, validatedLocation,
                  childGeo, results, accepted, llmFailed, calls, invoked >>
  /\ UNCHANGED << llmAnswer, extraction, fnInput, fnOutput >>

\* await geocodeLocation(location) in the for-of loop, and the code up to the
\* next await
CascadeGeocode ==
  /\ pc = "cascade"
  /\ \E reply \in GeoReplies :
       LET variations == locationVariations(potentialLocation)
           geoData == geocodeLocation(variations[idx], reply)
       IN /\ calls' = Append(calls, Call("geocodeLocation", "cascade",
                                         variations[idx], 0, 0, geoData.kind))
          /\ IF geoData.kind = "ok"
               THEN /\ idx' = idx
                    /\ IF revalidationRejects(potentialLocation, geoData)
                         THEN /\ ret' = notRecognizedFailure(potentialLocation)
                              /\ pc' = "done"
                              /\ UNCHANGED << analysis, validatedLocation,
                                              results, accepted >>
                       ELSE /\ accepted' = geoData
                            /\ Dispatch(IF analysis = JsUndefined
                                          THEN heuristicAnalysis(userInput,
                                                 firstSegment(geoData.displayName))
                                        ELSE analysis,
                                        firstSegment(geoData.displayName))
             ELSE /\ idx' = afterFailedVariation(variations, idx, geoData.kind)
                  /\ IF idx' > 3
                       THEN /\ ret' = notRecognizedFailure(potentialLocation)
                            /\ pc' = "done"
                     ELSE /\ ret' = ret
                          /\ pc' = "cascade"
                  /\ UNCHANGED << analysis, validatedLocation, results,
                                  accepted >>
  /\ UNCHANGED << userInput, claudeApiKey, potentialLocation, childGeo,
                  llmFailed, invoked >>
  /\ UNCHANGED << llmAnswer, extraction, fnInput, fnOutput >>

(* ------------------------------------------------------------------ *)
(* weatherAgent and placesAgent, one action per await                 *)
(* ------------------------------------------------------------------ *)

\* WeatherReturns with a weatherAgent failure that ends the request
WeatherReturns_AbortOnFailure(res) ==
  /\ results' = [results EXCEPT !.weather = res]
  /\ childGeo' = JsNull
  /\ pc' = IF res.success /\ placesWanted(analysis) THEN "placesAgent"
           ELSE "done"
  /\ ret' = IF ~res.success THEN [success |-> FALSE, error |-> res.error]
            ELSE IF pc' = "done" THEN successResult(results', validatedLocation)
            ELSE ret

\* results.weather = await weatherAgent(...) and the code up to the next await
WeatherReturns(res) ==
  /\ results' = [results EXCEPT !.weather = res]
  /\ childGeo' = JsNull
  /\ pc' = IF placesWanted(analysis) THEN "placesAgent" ELSE "done"
  /\ ret' = IF pc' = "done" THEN successResult(results', validatedLocation)
            ELSE ret

\* PlacesReturns with a placesAgent failure thrown on to the caller of
\* parentAgent
PlacesReturns_ThrowOnFailure(res) ==
  /\ results' = IF res.success THEN [results EXCEPT !.places = res] ELSE results
  /\ childGeo' = JsNull
  /\ pc' = IF res.success THEN "done" ELSE "threw"
  /\ ret' = IF res.success THEN successResult(results', validatedLocation)
            ELSE ret

\* results.places = await placesAgent(...) and Step 5
PlacesReturns(res) ==
  /\ results' = [results EXCEPT !.places = res]
  /\ childGeo' = JsNull
  /\ pc' = "done"
  /\ ret' = successResult(results', validatedLocation)

\* weatherAgent, Step 1
WeatherGeocode ==
  /\ pc = "weatherAgent"
  /\ invoked' = [invoked EXCEPT !.weather = @ + 1]
  /\ \E reply \in GeoReplies :
       LET geoData == geocodeLocation(validatedLocation, reply)
       IN /\ calls' = Append(calls, Call("geocodeLocation", "weather",
                                         validatedLocation, 0, 0, geoData.kind))
          /\ CASE geoData.kind = "throw" ->
                    WeatherReturns(agentCaught("Failed to geocode location"))
               [] geoData.kind = "null" -> WeatherReturns(agentLocationNotFound)
               [] geoData.kind = "ok" ->
                    /\ childGeo' = geoData
                    /\ pc' = "weatherFetch"
                    /\ UNCHANGED << results, ret >>
  /\ UNCHANGED << userInput, claudeApiKey, analysis, validatedLocation,
                  potentialLocation, idx, accepted, llmFailed >>
  /\ UNCHANGED << llmAnswer, extraction, fnInput, fnOutput >>

\* weatherAgent, Steps 2 and 3
WeatherFetch ==
  /\ pc = "weatherFetch"
  /\ \E answer \in WeatherAnswers :
       /\ calls' = Append(calls, Call("fetchWeather", "weather", <<>>,
                                      childGeo.lat, childGeo.lon, answer.kind))
       /\ IF answer.kind = "throw"
            THEN WeatherReturns(agentCaught("Failed to fetch weather data"))
          ELSE WeatherReturns(weatherSuccess(childGeo, answer))
  /\ UNCHANGED << userInput, claudeApiKey, analysis, validatedLocation,
                  potentialLocation, idx, accepted, llmFailed, invoked >>
  /\ UNCHANGED << llmAnswer, extraction, fnInput, fnOutput >>

\* placesAgent, Step 1
PlacesGeocode ==
  /\ pc = "placesAgent"
  /\ invoked' = [invoked EXCEPT !.places = @ + 1]
  /\ \E reply \in GeoReplies :
       LET geoData == geocodeLocation(validatedLocation, reply)
       IN /\ calls' = Append(calls, Call("geocodeLocation", "places",
                                         validatedLocation, 0, 0, geoData.kind))
          /\ CASE geoData.kind = "throw" ->
                    PlacesReturns(agentCaught("Failed to geocode location"))
               [] geoData.kind = "null" -> PlacesReturns(agentLocationNotFound)
               [] geoData.kind = "ok" ->
                    /\ childGeo' = geoData
                    /\ pc' = "placesFetch"
                    /\ UNCHANGED << results, ret >>
  /\ UNCHANGED << userInput, claudeApiKey, analysis, validatedLocation,
                  potentialLocation, idx, accepted, llmFailed >>
  /\ UNCHANGED << llmAnswer, extraction, fnInput, fnOutput >>

\* placesAgent, Steps 2 and 3
PlacesFetch ==
  /\ pc = "placesFetch"
  /\ \E answer \in PlacesAnswers :
       /\ calls' = Append(calls, Call("fetchTouristPlaces", "places", <<>>,
                                      childGeo.lat, childGeo.lon, answer.kind))
       /\ IF answer.kind = "throw"
            THEN PlacesReturns(agentCaught("Failed to fetch tourist places"))
          ELSE PlacesReturns(placesSuccess(validatedLocation, answer.places))
  /\ UNCHANGED << userInput, claudeApiKey, analysis, validatedLocation,
                  potentialLocation, idx, accepted, llmFailed, invoked >>
  /\ UNCHANGED << llmAnswer, extraction, fnInput, fnOutput >>

Next ==
  \/ SkipClaude
  \/ ClaudeThrows
  \/ ClaudeReturns
  \/ ClaudeGeocode
  \/ ExtractLocation
  \/ CascadeGeocode
  \/ WeatherGeocode
  \/ WeatherFetch
  \/ PlacesGeocode
  \/ PlacesFetch

Spec == Init /\ [][Next]_vars

\* Every await settles: each collaborator call returns or throws, and the code
\* between two awaits runs to the next one, so a run that can take a step
\* takes one.
FairSpec == Spec /\ WF_vars(Next)

(* ------------------------------------------------------------------ *)
(* geocodeLocation applied on its own                                 *)
(* ------------------------------------------------------------------ *)

\* the variables of a run of parentAgent
parentVars ==
  << userInput, claudeApiKey, pc, analysis, validatedLocation,
     potentialLocation, idx, childGeo, results, ret, accepted, llmFailed,
     calls, invoked, llmAnswer, extraction >>

\* no run of parentAgent is under way
parentIdle ==
  /\ userInput = <<>>
  /\ claudeApiKey = JsNull
  /\ pc = "idle"
  /\ analysis = JsUndefined
  /\ validatedLocation = <<>>
  /\ potentialLocation = <<>>
  /\ idx = 0
  /\ childGeo = JsNull
  /\ results = JsUndefined
  /\ ret = JsUndefined
  /\ accepted = JsNull
  /\ llmFailed = FALSE
  /\ calls = <<>>
  /\ invoked = [weather |-> 0, places |-> 0]
  /\ llmAnswer = JsNull
  /\ extraction = <<>>

\* the location argument: shorter than 4, 4 and longer, with and without
\* surrounding whitespace
MatcherLocations ==
  {<<"a">>,
   <<"L","A">>,
   <<"l","a"," ">>,
   <<"g","o","a">>,
   <<"G","o","a">>,
   <<"X","Y">>,
   <<" ","L","A"," ">>,
   <<"G","o","a"," ">>,
   <<"L","a","o","s">>,
   <<"P","a","r","i">>,
   <<"P","a","r","i","s">>,
   <<"B","a","n","g","a","l","o","r","e">>,
   <<"p","a","r","i","s"," ","t","e","x","a","s">>,
   <<"X","y","z","1","2","3","4","5">>}

\* display_name of the first search result
MatcherNames ==
  {<<"L","a",","," ","A","c","c","r","a">>,
   <<"L","a","o","s">>,
   <<"G","o","a",","," ","I","n","d","i","a">>,
   <<"P","a","r","i","s",","," ","F","r","a","n","c","e">>,
   <<"B","e","n","g","a","l","u","r","u",","," ","K","a","r","n","a","t","a","k","a">>,
   <<"P","a","r","i","s","h",","," ","N","e","w"," ","Y","o","r","k">>,
   <<"G","o","a","t",","," ","K","e","n","t","u","c","k","y">>,
   <<"G","o",","," ","J","a","p","a","n">>,
   <<"X","Y">>}

\* importance of the first search result, in hundredths; -1: no importance
MatcherImportances == {-1, 0, 19, 20, 39, 40, 80}

MatcherReplies ==
  {GeoFail, GeoEmpty} \cup
  {Hit(1, 2, n, i) : n \in MatcherNames, i \in MatcherImportances}

MatcherInit ==
  /\ parentIdle
  /\ fnInput \in [location : MatcherLocations, reply : MatcherReplies]
  /\ fnOutput = JsNull

\* await geocodeLocation(location) with the search answering reply
ApplyGeocodeLocation ==
  /\ fnOutput = JsNull
  /\ fnOutput' = geocodeLocation(fnInput.location, fnInput.reply)
  /\ UNCHANGED << fnInput, parentVars >>

\* isValidLocationMatch(location, result) for the first search result
ApplyIsValidLocationMatch ==
  /\ fnOutput = JsNull
  /\ fnInput.reply.kind = "hit"
  /\ fnOutput' = [valid |-> isValidLocationMatch(fnInput.location,
                     [displayName |-> fnInput.reply.display_name])]
  /\ UNCHANGED << fnInput, parentVars >>

MatcherNext == ApplyGeocodeLocation \/ ApplyIsValidLocationMatch

MatcherSpec == MatcherInit /\ [][MatcherNext]_vars

(* ------------------------------------------------------------------ *)
(* extractLocation applied on its own                                 *)
(* ------------------------------------------------------------------ *)

\* The queries are put together from four parts: what precedes the phrase,
\* the phrase a pattern looks for, the span X after it, and what follows X.
ExtractPrefixes ==
  {<<>>,
   <<"I","'","m"," ">>,
   <<"w","e","a","t","h","e","r"," ">>,
   <<"w","h","a","t"," ","i","s"," ","t","h","e"," ","w","e","a","t","h","e","r"," ">>,
   <<"r","a","i","n"," ">>}

ExtractPhrases ==
  {<<"g","o","i","n","g"," ","t","o"," ","g","o"," ","t","o"," ">>,
   <<"G","o","i","n","g"," ","T","o"," ","G","o"," ","T","o"," ">>,
   <<"g","o","i","n","g"," ","t","o"," ">>,
   <<"i","n"," ">>,
   <<"a","t"," ">>,
   <<"t","o"," ">>,
   <<"v","i","s","i","t"," ">>,
   <<>>}

\* X: no , ? ! . in it
ExtractSpans ==
  {<<"B","a","n","g","a","l","o","r","e">>,
   <<"t","h","e">>,
   <<"a">>,
   <<"N","e","w"," ","Y","o","r","k">>,
   <<"t","h","e"," ","G","o","a">>,
   <<"G","o","a",";">>,
   <<"i","t">>}

\* empty, or starting with one of , ? ! .
ExtractSuffixes ==
  {<<>>,
   <<",">>,
   <<","," ","l","e","t","'","s"," ","p","l","a","n"," ","m","y"," ","t","r","i","p",".">>,
   <<"?">>,
   <<".">>}

\* the userInput put together from the parts
queryOf(parts) == parts.prefix \o parts.phrase \o parts.x \o parts.suffix

ExtractInit ==
  /\ parentIdle
  /\ fnInput \in [prefix : ExtractPrefixes, phrase : ExtractPhrases,
                   x : ExtractSpans, suffix : ExtractSuffixes]
  /\ fnOutput = JsNull

\* const potentialLocation = extractLocation(userInput)
ApplyExtractLocation ==
  /\ fnOutput = JsNull
  /\ fnOutput' = [potentialLocation |-> extractLocation(queryOf(fnInput))]
  /\ UNCHANGED << fnInput, parentVars >>

ExtractNext == ApplyExtractLocation

ExtractSpec == ExtractInit /\ [][ExtractNext]_vars

(* ------------------------------------------------------------------ *)
(* Step 2 of the two parentAgent variants, applied on its own         *)
(* ------------------------------------------------------------------ *)

QueryPunctuated == <<","," "," "," ","a">>
QueryGoa == <<"G","o","a">>

ResolveQueries ==
  {QueryLA, QueryOneLetter, QueryPunctuated, QueryGoa, QueryParisTexas}

\* a first result whose display name starts with a blank segment
HitBlank == Hit(0, 0, <<" ",","," ","N","o","w","h","e","r","e">>, 50)

ResolveReplies ==
  {GeoFail, GeoEmpty, HitLA, HitGoa, HitParisTexas, HitBlank}

ResolveInit ==
  /\ parentIdle
  /\ fnInput \in
       {[userInput |-> q, potentialLocation |-> extractLocation(q),
         replies |-> r] : q \in ResolveQueries,
                          r \in [1..3 -> ResolveReplies]}
  /\ fnOutput = JsNull

\* Step 2 of both variants for the same query and the same answers
ApplyResolveLocation ==
  /\ fnOutput = JsNull
  /\ fnOutput' =
       [first |-> resolveLocation(fnInput.potentialLocation,
                                  fnInput.replies, FALSE),
        second |-> resolveLocation(fnInput.potentialLocation,
                                   fnInput.replies, TRUE)]
  /\ UNCHANGED << fnInput, parentVars >>

ResolveNext == ApplyResolveLocation

ResolveSpec == ResolveInit /\ [][ResolveNext]_vars

(* ------------------------------------------------------------------ *)
(* Properties                                                         *)
(* ------------------------------------------------------------------ *)

Finished == pc = "done"

\* parentAgent got as far as Step 3
Dispatched == results # JsUndefined

\* the calls one caller made, in order
CallsBy(by) == SelectSeq(calls, LAMBDA c : c.by = by)

GeocodeCalls == SelectSeq(calls, LAMBDA c : c.fn = "geocodeLocation")

FetchCalls ==
  SelectSeq(calls, LAMBDA c : c.fn \in {"fetchWeather", "fetchTouristPlaces"})

\* C1: once parentAgent has accepted a geocoding result as the resolved
\* location, geocodeLocation is not called again: no geocoding call is made by
\* weatherAgent or placesAgent.
C1_NoGeocodingAfterResolution ==
  accepted # JsNull =>
    /\ GeocodeCalls[Len(GeocodeCalls)].by \in {"claude", "cascade"}
    /\ GeocodeCalls[Len(GeocodeCalls)].out = "ok"

\* C2: every fetchWeather and fetchTouristPlaces call is made with the
\* latitude and longitude of the hit parentAgent accepted, so that two such
\* calls of one run get the same coordinates.
C2_FetchUsesResolvedCoordinates ==
  \A k \in 1..Len(FetchCalls) :
    /\ accepted # JsNull
    /\ FetchCalls[k].lat = accepted.lat
    /\ FetchCalls[k].lon = accepted.lon

\* C3: a run that reaches dispatch calls weatherAgent exactly once if
\* needsWeather is set and not at all otherwise, and placesAgent exactly once
\* if needsPlaces is set or neither flag is set and not at all otherwise; a
\* success result has at least one sub-result that is not null.
C3_DispatchFollowsFlags ==
  Dispatched =>
    LET expWeather == IF analysis.needsWeather THEN 1 ELSE 0
        expPlaces == IF analysis.needsPlaces
                          \/ (~analysis.needsWeather /\ ~analysis.needsPlaces)
                       THEN 1 ELSE 0
    IN /\ invoked.weather <= expWeather
       /\ invoked.places <= expPlaces
       /\ Finished =>
            /\ invoked.weather = expWeather
            /\ invoked.places = expPlaces
            /\ ret.success
            /\ (ret.results.weather # JsNull) <=> (expWeather = 1)
            /\ (ret.results.places # JsNull) <=> (expPlaces = 1)
            /\ ret.results.weather # JsNull \/ ret.results.places # JsNull

C3_Witness ==
  /\ Finished
  /\ Dispatched
  /\ ~analysis.needsWeather
  /\ ~analysis.needsPlaces
  /\ invoked = [weather |-> 0, places |-> 1]
  /\ ret.results.places # JsNull

\* a collaborator call of the child agent threw or gave no location
FailedCall(by) ==
  \E k \in 1..Len(calls) :
    calls[k].by = by /\ calls[k].out \in {"throw", "null"}

\* C4: when both child agents are requested and one of them fails, the other
\* is still called and its result is in results, the failed one has
\* success = FALSE, and parentAgent returns success = TRUE.
C4_ChildFailureIsLocal ==
  (Finished /\ Dispatched /\ analysis.needsWeather /\ analysis.needsPlaces) =>
    /\ ret.success
    /\ invoked = [weather |-> 1, places |-> 1]
    /\ ret.results.weather # JsNull
    /\ ret.results.places # JsNull
    /\ ret.results.weather.success = ~FailedCall("weather")
    /\ ret.results.places.success = ~FailedCall("places")

C4_Witness ==
  /\ Finished
  /\ Dispatched
  /\ analysis.needsWeather
  /\ analysis.needsPlaces
  /\ FailedCall("weather")
  /\ ret.success
  /\ ~ret.results.weather.success
  /\ ret.results.places.success
  /\ Len(ret.results.places.places) > 0

\* C5: when a key is supplied and the LLM step fails (analyzeWithClaude throws
\* or the geocoding call for the LLM's location throws), the run continues as
\* one without a key: the location comes from the heuristic cascade and the
\* intent flags are those of analyzeIntent.
C5_LlmFailureEqualsNoKey ==
  (llmFailed /\ Dispatched) =>
    /\ analysis.needsWeather = analyzeIntent(userInput).needsWeather
    /\ analysis.needsPlaces = analyzeIntent(userInput).needsPlaces

LlmCalls == SelectSeq(calls, LAMBDA c : c.fn = "analyzeWithClaude")

CascadeCalls == CallsBy("cascade")

\* the key is null, empty or only whitespace
BlankKey ==
  \/ claudeApiKey = JsNull
  \/ \A i \in 1..Len(claudeApiKey.str) : IsWs(claudeApiKey.str[i])

\* C6: analyzeWithClaude is called at most once per run and never with a
\* blank key; a run with a blank key whose cascade gets a location accepted
\* ends in success.
C6_LlmIsOptional ==
  /\ Len(LlmCalls) <= 1
  /\ BlankKey =>
       /\ Len(LlmCalls) = 0
       /\ (Finished /\ \E k \in 1..Len(CascadeCalls) : CascadeCalls[k].out = "ok")
            => ret.success

C6_Witness ==
  /\ Finished
  /\ claudeApiKey = [str |-> <<" ">>]
  /\ Len(LlmCalls) = 0
  /\ \E k \in 1..Len(CascadeCalls) : CascadeCalls[k].out = "ok"
  /\ ret.success

\* the geocoding call for the LLM's location gave a location
LlmLocationAccepted ==
  \E k \in 1..Len(calls) : calls[k].by = "claude" /\ calls[k].out = "ok"

\* C7: when no LLM location was accepted and the extracted candidate has fewer
\* than 2 characters, the run ends in a failure with a non-empty error and
\* location '', no candidate is geocoded and no child agent is called.
C7_ShortCandidateFails ==
  (Finished /\ ~LlmLocationAccepted /\ Len(potentialLocation) < 2) =>
    /\ ~ret.success
    /\ ret.error.template # ""
    /\ ret.location = <<>>
    /\ CascadeCalls = <<>>
    /\ invoked = [weather |-> 0, places |-> 0]
    /\ ~Dispatched

C7_Witness ==
  /\ Finished
  /\ potentialLocation = <<"a">>
  /\ Len(CallsBy("claude")) = 1
  /\ ~LlmLocationAccepted
  /\ ~ret.success
  /\ ret.location = <<>>

\* every variation was geocoded and none was accepted
AllVariationsFailed ==
  /\ Len(CascadeCalls) = 3
  /\ \A k \in 1..3 : CascadeCalls[k].out \in {"throw", "null"}

\* C8: when every variation of the candidate is rejected or makes the geocoder
\* throw, the run ends in a failure with a non-empty error and the candidate
\* as location, and no child agent is called.
C8_UnresolvedCandidateFails ==
  (Finished /\ AllVariationsFailed) =>
    /\ ~ret.success
    /\ ret.error.template # ""
    /\ Len(potentialLocation) >= 2
    /\ ret.location = potentialLocation
    /\ invoked = [weather |-> 0, places |-> 0]
    /\ ~Dispatched

C8_Witness ==
  /\ Finished
  /\ AllVariationsFailed
  /\ CascadeCalls[1].out = "throw"
  /\ CascadeCalls[2].out = "null"
  /\ ~ret.success
  /\ ret.location = potentialLocation

\* the variations in the order of the claim: the candidate, its part before
\* the first comma, its first three space-separated tokens
FirstTokens(str, n) ==
  LET tokens == splitChar(str, " ")
  IN join(SubSeq(tokens, 1, IF Len(tokens) < n THEN Len(tokens) ELSE n),
          <<" ">>)

VariationsInOrder ==
  << potentialLocation, firstSegment(potentialLocation),
     FirstTokens(potentialLocation, 3) >>

\* C9: the cascade geocodes the variations one at a time in the order
\* candidate, part before the first comma, first three tokens; after an
\* accepted variation none is geocoded; the resolved name is the first comma
\* segment of the accepted display name.
C9_CascadeOrder ==
  /\ Len(CascadeCalls) <= 3
  /\ \A k \in 1..Len(CascadeCalls) :
       /\ CascadeCalls[k].arg = VariationsInOrder[k]
       /\ k < Len(CascadeCalls) => CascadeCalls[k].out # "ok"
  /\ (Dispatched /\ ~LlmLocationAccepted) =>
       /\ CascadeCalls[Len(CascadeCalls)].out = "ok"
       /\ validatedLocation = firstSegment(accepted.displayName)
       /\ results.location = firstSegment(accepted.displayName)

C9_Witness ==
  /\ Finished
  /\ ret.success
  /\ Len(CascadeCalls) = 3
  /\ CascadeCalls[3].out = "ok"
  /\ CascadeCalls[3].arg # CascadeCalls[1].arg
  /\ validatedLocation = firstSegment(accepted.displayName)

LlmGaveLocation == llmAnswer # JsNull /\ llmAnswer.location # <<>>

\* the extractor of Step 2 has run (every query of the model has a non-empty
\* candidate)
ExtractorRan == potentialLocation # <<>>

\* C11: when the LLM returns a location, the first geocoding call of the run
\* is made for exactly that location, before anything else happens; if that
\* call gives a location, the extractor and the cascade never run and the
\* child agents called are those the LLM's flags ask for; if that call gives
\* no location, the run does not end before the extractor has run.
C11_LlmLocationFirst ==
  LlmGaveLocation =>
    /\ (pc # "claudeGeocode") = (GeocodeCalls # <<>>)
    /\ GeocodeCalls # <<>> =>
         /\ GeocodeCalls[1].by = "claude"
         /\ GeocodeCalls[1].arg = llmAnswer.location
    /\ LlmLocationAccepted =>
         /\ ~ExtractorRan
         /\ CascadeCalls = <<>>
         /\ Dispatched
         /\ Finished =>
              /\ ret.success
              /\ (invoked.weather = 1) = llmAnswer.needsWeather
              /\ (invoked.places = 1) =
                   (llmAnswer.needsPlaces \/ ~llmAnswer.needsWeather)
    /\ (GeocodeCalls # <<>> /\ GeocodeCalls[1].out = "null") =>
         /\ pc \notin {"start", "claudeGeocode"}
         /\ Finished => ExtractorRan

\* the LLM's location was rejected and the cascade still resolved the query
C11_Witness ==
  /\ LlmGaveLocation
  /\ GeocodeCalls # <<>>
  /\ GeocodeCalls[1].by = "claude"
  /\ GeocodeCalls[1].out = "null"
  /\ \E k \in 1..Len(CascadeCalls) : CascadeCalls[k].out = "ok"
  /\ Finished
  /\ ret.success

\* the { success: true, message, results } parentAgent resolves to
IsSuccess(r) ==
  /\ DOMAIN r = {"success", "message", "results"}
  /\ r.success

\* a { success: false, error, ... } parentAgent resolves to
IsFailure(r) ==
  /\ {"success", "error"} \subseteq DOMAIN r
  /\ ~r.success
  /\ r.error.template # ""

\* some collaborator call of the run threw
SomeCallThrew == \E k \in 1..Len(calls) : calls[k].out = "throw"

\* C12: when every collaborator call returns or throws, every run of
\* parentAgent ends, and it ends by resolving to a success result or to a
\* failure result, whatever the collaborators returned or threw.
C12_EndsInSuccessOrFailure ==
  <>(Finished /\ (IsSuccess(ret) \/ IsFailure(ret)))

\* a run in which a collaborator threw has ended with a result
C12_Witness ==
  /\ Finished
  /\ SomeCallThrew
  /\ calls[Len(calls)].out = "throw"
  /\ IsSuccess(ret)

\* C13: every result parentAgent resolves to has one of two shapes: a success
\* result has a top-level location equal to the validated location, with
\* message and results; a failure result has a non-empty error and a location
\* field.
C13_ResultShapes ==
  Finished =>
    IF ret.success
      THEN /\ {"location", "message", "results"} \subseteq DOMAIN ret
           /\ ret.location = validatedLocation
    ELSE /\ {"error", "location"} \subseteq DOMAIN ret
         /\ ret.error.template # ""

\* geocodeLocation has been applied to a search result
GeocodedHit ==
  /\ fnOutput # JsNull
  /\ "kind" \in DOMAIN fnOutput
  /\ fnInput.reply.kind = "hit"

\* C14: for a location shorter than 4 characters and a search result whose
\* importance is below 0.4 or missing, geocodeLocation returns null, also
\* when the first segment of the display name equals the location.
C14_ShortNeedsImportance ==
  (/\ GeocodedHit
   /\ Len(fnInput.location) < 4
   /\ fnInput.reply.importance < 40) => fnOutput = GeoNull

\* a short location equal to the first segment, importance 0.39: null
C14_Witness ==
  /\ GeocodedHit
  /\ Len(fnInput.location) < 4
  /\ toLowerCase(fnInput.location)
       = firstSegment(toLowerCase(fnInput.reply.display_name))
  /\ fnInput.reply.importance = 39
  /\ fnOutput = GeoNull

\* the acceptance rule for locations of 4 characters and more
LongRuleAccepts(location, reply) ==
  LET inputLower == trim(toLowerCase(location))
      mainLocation == firstSegment(toLowerCase(reply.display_name))
  IN /\ \/ includes(mainLocation, inputLower)
        \/ includes(inputLower, mainLocation)
        \/ SimAtLeast(calculateSimilarity(inputLower, mainLocation), 65)
     /\ reply.importance >= 20

\* C15: for a location of 4 characters or more, geocodeLocation returns a
\* location exactly when the lower-cased trimmed location and the lower-cased
\* first segment of the display name contain one another or have similarity
\* 0.65 or more, and the importance is 0.2 or more.
C15_LongAcceptRule ==
  (GeocodedHit /\ Len(fnInput.location) >= 4) =>
    (fnOutput.kind = "ok") = LongRuleAccepts(fnInput.location, fnInput.reply)

\* extractLocation has been applied
Extracted == fnOutput # JsNull

GoingToGoTo ==
  toLowerCase(fnInput.phrase) = <<"g","o","i","n","g"," ","t","o"," ","g","o"," ","t","o"," ">>

Bangalore == <<"B","a","n","g","a","l","o","r","e">>

\* C16: for a query with "going to go to X", X running up to the next , ? ! .
\* or the end and keeping 2 characters or more once its stop words are
\* removed, extractLocation returns X with its stop words removed, whatever
\* precedes the phrase; for the first query of the README it returns
\* "Bangalore".
C16_GoingToGoToFirst ==
  /\ (Extracted /\ GoingToGoTo /\ Len(removeStopWords(fnInput.x)) >= 2) =>
       fnOutput.potentialLocation = removeStopWords(fnInput.x)
  /\ (Extracted /\ queryOf(fnInput) = ReadmePlaces) =>
       fnOutput.potentialLocation = Bangalore

\* X has a stop word that is removed, and another rule's phrase precedes
C16_Witness ==
  /\ Extracted
  /\ GoingToGoTo
  /\ fnInput.prefix = <<"r","a","i","n"," ">>
  /\ fnInput.x = <<"t","h","e"," ","G","o","a">>
  /\ fnOutput.potentialLocation = <<"G","o","a">>

\* the phrase of one of the four capturing patterns, with nothing before it
\* that one of these patterns matches
CapturingPhrase ==
  \/ toLowerCase(fnInput.phrase) \in
       {<<"g","o","i","n","g"," ","t","o"," ","g","o"," ","t","o"," ">>,
        <<"g","o","i","n","g"," ","t","o"," ">>}
  \/ /\ fnInput.phrase \in {<<"i","n"," ">>, <<"a","t"," ">>, <<"t","o"," ">>}
     /\ fnInput.prefix \in {<<>>, <<"I","'","m"," ">>, <<"w","e","a","t","h","e","r"," ">>}

\* C18: when the span X a capturing pattern ("going to go to X", "going to
\* X", "in X", "at X", "to X") captured has nothing left once its stop words
\* are removed, extractLocation returns X itself with its punctuation
\* stripped.
C18_UnfilteredFallback ==
  (Extracted /\ CapturingPhrase /\ removeStopWords(fnInput.x) = <<>>) =>
    fnOutput.potentialLocation = trim(stripPunct(fnInput.x))

\* C19: for a query without "going to" in which the word "in" or "at" is
\* followed by X, extractLocation returns X with its stop words removed, also
\* when an earlier word of the query ends in "in" or "at".
C19_InAtWholeWord ==
  (/\ Extracted
   /\ fnInput.phrase \in {<<"i","n"," ">>, <<"a","t"," ">>}
   /\ ~includes(toLowerCase(queryOf(fnInput)), <<"g","o","i","n","g"," ","t","o">>)
   /\ removeStopWords(fnInput.x) # <<>>) =>
    fnOutput.potentialLocation = removeStopWords(fnInput.x)

\* the run had no usable key and its cascade got "Bangalore" accepted
BangaloreResolved ==
  /\ BlankKey
  /\ Finished
  /\ CascadeCalls # <<>>
  /\ CascadeCalls[Len(CascadeCalls)].arg = Bangalore
  /\ CascadeCalls[Len(CascadeCalls)].out = "ok"

\* some keyword of the list is a substring of the lower-cased query
HasKeyword(keywords) ==
  \E k \in 1..Len(keywords) : includes(toLowerCase(userInput), keywords[k])

\* C17: with no key and a geocoder that accepts "Bangalore", the first README
\* query calls placesAgent only, the second weatherAgent only and the third
\* both; in every run without a key that reaches Step 3, each flag is set
\* exactly when the lower-cased query contains one of its keywords.
C17_ReadmeDispatch ==
  /\ (BangaloreResolved /\ userInput = ReadmePlaces) =>
       invoked = [weather |-> 0, places |-> 1]
  /\ (BangaloreResolved /\ userInput = ReadmeWeather) =>
       invoked = [weather |-> 1, places |-> 0]
  /\ (BangaloreResolved /\ userInput = ReadmeBoth) =>
       invoked = [weather |-> 1, places |-> 1]
  /\ (BlankKey /\ Dispatched) =>
       /\ analysis.needsWeather = HasKeyword(weatherKeywords)
       /\ analysis.needsPlaces = HasKeyword(placesKeywords)

\* the third README query ended with both child agents called
C17_Witness ==
  /\ BangaloreResolved
  /\ userInput = ReadmeBoth
  /\ invoked = [weather |-> 1, places |-> 1]
  /\ ret.success

\* the messages of the child agents that succeeded, weather first
ChildMessages ==
  (IF results.weather # JsNull /\ results.weather.success
     THEN <<results.weather.message>> ELSE <<>>)
  \o (IF results.places # JsNull /\ results.places.success
        THEN <<results.places.message>> ELSE <<>>)

\* C20: the message of a success result is made of the messages of the child
\* agents that were called and succeeded, weather first and places second;
\* with a non-empty list of places it has placesAgent's message, which names
\* the attractions.
C20_MessageIsConcatenation ==
  (Finished /\ ret.success) => ret.message = ChildMessages

\* Step 2 of both variants has been applied
Resolved == fnOutput # JsNull

Matched == fnOutput # JsNull /\ "valid" \in DOMAIN fnOutput

\* the lower-cased trimmed location has 1 to 3 characters
ShortCandidate == Len(trim(toLowerCase(fnInput.location))) \in 1..3

\* C22: for a location whose lower-cased trimmed form has 1 to 3 characters,
\* isValidLocationMatch accepts a search result only if the lower-cased
\* trimmed first comma-segment of its display name equals the lower-cased
\* trimmed location.
C22_ShortAcceptsOnlyEqual ==
  (Matched /\ ShortCandidate /\ fnOutput.valid) =>
    trim(firstSegment(toLowerCase(fnInput.reply.display_name)))
      = trim(toLowerCase(fnInput.location))

\* " LA " is accepted against "La, Accra"
C22_Witness ==
  /\ Matched
  /\ ShortCandidate
  /\ fnInput.location = <<" ","L","A"," ">>
  /\ fnInput.reply.display_name = <<"L","a",","," ","A","c","c","r","a">>
  /\ fnOutput.valid

\* a child agent was called and returned success
SomeChildSucceeded ==
  \/ ret.results.weather # JsNull /\ ret.results.weather.success
  \/ ret.results.places # JsNull /\ ret.results.places.success

\* C23: when parentAgent returns success = TRUE, at least one of the child
\* agents it called succeeded and the message is not empty; a run in which
\* every called child agent failed does not end in success.
C23_SuccessNeedsChildSuccess ==
  (Finished /\ IsSuccess(ret)) =>
    /\ SomeChildSucceeded
    /\ ret.message # <<>>

\* the importance threshold of the tier isValidLocationMatch judges
\* location by, in hundredths
tierThreshold(location) ==
  IF Len(trim(toLowerCase(location))) < 4 THEN 40 ELSE 20

\* C24: geocodeLocation uses one length tier for both of its checks, also for
\* a location with leading or trailing whitespace: a location it returns was
\* held to the importance 0.4 when isValidLocationMatch judged it by the
\* short-input rule, and to 0.2 when judged by the rule for longer inputs.
C24_SameTierForBothChecks ==
  (GeocodedHit /\ fnOutput.kind = "ok") =>
    fnInput.reply.importance >= tierThreshold(fnInput.location)

====
